---- MODULE Spec2Model ----
(***************************************************************************)
(* Litton-7 batch classifier: the folder loop of                           *)
(* prediction_Image(Litton-7type-visual-landscape-model).py and its        *)
(* main(imgpath), over a small file system.                                *)
(*                                                                         *)
(* The file system is the tree rootfolder/<folder>/<entry> and             *)
(* rootfolder/<folder>/<label>/<file>.  The classifier is external: the    *)
(* softmax vector it returns for a decodable image is an input, drawn from *)
(* ProbVectors.                                                            *)
(***************************************************************************)
EXTENDS Integers, Sequences, FiniteSets, TLC

\* ------------------------------------------------------------------ bounds
\* Files (not directories) present below the root before the run, in total.
MaxFiles == 2
\* The decision rule is checked on every vector of K entries in 0 .. Grid.
Grid == 2

\* ------------------------------------------------------- program constants
labels == << "0.Panoramic-landscape", "1.Feature-landscape",
             "2.Detail-landscape", "3.Enclosed-landscape",
             "4.Focal-landscape", "5.Ephemeral-landscape",
             "6.Canopied-landscape" >>

\* len(labels)
K == Len(labels)

\* Python indexes from 0: labels[i] of the source is Label(i).
Label(i) == labels[i + 1]

LabelIdx == 0 .. (K - 1)

LabelSet == { Label(i) : i \in LabelIdx }

\* str(i) for the one-digit indexes range(len(labels)) yields.
Str(i) == SubSeq("0123456789", i + 1, i + 1)

\* labelsnum = [str(i) for i in range(len(labels))]
labelsnum == [ j \in 1 .. K |-> Str(j - 1) ]

img_type == << ".jpg", ".bmp", ".png" >>

\* ------------------------------------------------------------ input universe
\* Top-level subfolders of the root folder.
FolderNames == { "f1", "f2" }

\* Entry names that are not category labels.
FileNames == { "0.A.jpg", "a.png", "notes.txt" }

\* The category label that may be the name of a regular file before the run.
PreFileLabels == { Label(2) }

\* A file an earlier run may have left in a category subfolder.
OldName == "a.png"
OldDir == Label(2)

\* What an earlier run may have left in a folder: nothing, some category
\* subfolders with a file in one of them, or all category subfolders.
PreStates == { [ dirs |-> {}, old |-> FALSE ],
               [ dirs |-> { Label(1), OldDir }, old |-> TRUE ],
               [ dirs |-> LabelSet, old |-> FALSE ] }

Names == FileNames \cup LabelSet

\* What a directory entry is: a directory, a file the pipeline decodes and
\* classifies ("img"), a file for which open/convert/preprocess/inference
\* raises ("junk"), or nothing.
Kinds == { "absent", "dir", "img", "junk" }

\* ------------------------------------------------------------ str helpers
\* The characters of the names above, in code-point order.
CodePoints == "-.0123456789ABCDEFGHIJKLMNOPQRSTUVWXYZabcdefghijklmnopqrstuvwxyz"

Chr(s, i) == SubSeq(s, i, i)

Ord(c) == CHOOSE i \in 1 .. Len(CodePoints) : Chr(CodePoints, i) = c

\* a < b on Python str: lexicographic by code point.
RECURSIVE StrLessFrom(_, _, _)
StrLessFrom(a, b, i) ==
    IF i > Len(b) THEN FALSE
    ELSE IF i > Len(a) THEN TRUE
    ELSE IF Chr(a, i) = Chr(b, i) THEN StrLessFrom(a, b, i + 1)
    ELSE Ord(Chr(a, i)) < Ord(Chr(b, i))

StrLess(a, b) == StrLessFrom(a, b, 1)

\* Mutant of Sorted: descending order.
RECURSIVE SortedDescending(_)
SortedDescending(S) ==
    IF S = {} THEN << >>
    ELSE LET m == CHOOSE x \in S : \A y \in S \ {x} : StrLess(y, x)
         IN  << m >> \o SortedDescending(S \ {m})

\* list.sort() of a listing without duplicates.
RECURSIVE Sorted(_)
Sorted(S) ==
    IF S = {} THEN << >>
    ELSE LET m == CHOOSE x \in S : \A y \in S \ {x} : StrLess(x, y)
         IN  << m >> \o Sorted(S \ {m})

\* str.find(sub): the lowest 0-based index where sub occurs, or -1.
RECURSIVE FindFrom(_, _, _)
FindFrom(s, t, i) ==
    IF i + Len(t) > Len(s) THEN -1
    ELSE IF SubSeq(s, i + 1, i + Len(t)) = t THEN i
    ELSE FindFrom(s, t, i + 1)

Find(s, t) == FindFrom(s, t, 0)

\* ------------------------------------------------------------ decision
\* max(transfer_list)
RECURSIVE MaxFrom(_, _, _)
MaxFrom(v, i, best) ==
    IF i > Len(v) THEN best
    ELSE MaxFrom(v, i + 1, IF v[i] > best THEN v[i] ELSE best)

Max(v) == MaxFrom(v, 2, v[1])

\* transfer_list.index(x): 0-based index of the first element equal to x.
RECURSIVE IndexFrom(_, _, _)
IndexFrom(v, x, i) ==
    IF v[i + 1] = x THEN i ELSE IndexFrom(v, x, i + 1)

\* Mutant of Index: the last element equal to x.
RECURSIVE IndexLastFrom(_, _, _)
IndexLastFrom(v, x, i) ==
    IF v[i + 1] = x THEN i ELSE IndexLastFrom(v, x, i - 1)

IndexLast(v, x) == IndexLastFrom(v, x, Len(v) - 1)

Index(v, x) == IndexFrom(v, x, 0)

\* transfer_list: fc_out[0][x].item() for x in range(len(labelsnum)).
TransferList(out) == [ x \in 1 .. Len(labelsnum) |-> out[x] ]

\* The else block's decision: (i, label, labelnum, best_out).
Decide(out) ==
    LET transfer_list == TransferList(out)
        best_out == Max(transfer_list)
        i == Index(transfer_list, best_out)
    IN  [ i |-> i, label |-> Label(i), labelnum |-> labelsnum[i + 1],
          best_out |-> best_out ]

\* The softmax vectors the classifier returns in a run, in units of 1/K:
\* all the mass on one category, or the same mass on every category.
ProbVectors ==
    { [ x \in 1 .. K |-> IF x = i + 1 THEN K ELSE 0 ] : i \in LabelIdx }
        \cup { [ x \in 1 .. K |-> 1 ] }

\* ------------------------------------------------------------ file system
\* The for loop over range(len(labels)) at the head of the try block, from
\* index i on, over the entries t of imgpath: labels[i] equal to infile is
\* passed over, a missing directory is made, and os.mkdir raises
\* FileExistsError on a name taken by a file.
\* Mutant of MkdirLoop: os.mkdir without the os.path.isdir test before it.
RECURSIVE MkdirLoopNoIsdir(_, _, _)
MkdirLoopNoIsdir(t, infile, i) ==
    IF i = K THEN [ top |-> t, raised |-> FALSE ]
    ELSE IF infile = Label(i) THEN MkdirLoopNoIsdir(t, infile, i + 1)
    ELSE IF t[Label(i)] = "absent"
         THEN MkdirLoopNoIsdir([ t EXCEPT ![Label(i)] = "dir" ], infile, i + 1)
    ELSE [ top |-> t, raised |-> TRUE ]

RECURSIVE MkdirLoop(_, _, _)
MkdirLoop(t, infile, i) ==
    IF i = K THEN [ top |-> t, raised |-> FALSE ]
    ELSE IF infile = Label(i) THEN MkdirLoop(t, infile, i + 1)
    ELSE IF t[Label(i)] = "dir" THEN MkdirLoop(t, infile, i + 1)
    ELSE IF t[Label(i)] = "absent"
         THEN MkdirLoop([ t EXCEPT ![Label(i)] = "dir" ], infile, i + 1)
    ELSE [ top |-> t, raised |-> TRUE ]

\* The for loop over img_type, from index j on: TRUE iff it takes the entry
\* out of the try block.  Its continue goes to the next img_type, and so
\* does the end of its body.
RECURSIVE ImgTypeLoop(_, _)
ImgTypeLoop(infile, j) ==
    IF j > Len(img_type) THEN FALSE
    ELSE IF Find(infile, img_type[j]) = -1 THEN ImgTypeLoop(infile, j + 1)
    ELSE ImgTypeLoop(infile, j + 1)

\* Mutant of OpenRaises: a directory is taken for an image.
OpenRaisesOnFilesOnly(kind) == kind \notin { "img", "dir" }

\* Image.open(name).convert("RGB"), preprocess and model raise on anything
\* but a decodable image file.
OpenRaises(kind) == kind # "img"

\* shutil.move(name, newpath) raises when the directory of newpath is not a
\* directory.
MoveRaises(t, label) == t[label] # "dir"

\* Mutant of MovedInto: a file of the same name is not replaced.
MovedIntoKeepsOld(files, infile) == files \cup { << infile, "new" >> }

\* The files of a category subfolder after infile was moved into it.
MovedInto(files, infile) ==
    { e \in files : e[1] # infile } \cup { << infile, "new" >> }

\* ------------------------------------------------------------------ state
VARIABLES
    top,             \* top[f][n]: what entry n of folder f is
    top0,            \* top before the run (never changes)
    sub,             \* sub[f][l]: the files of category subfolder l of f
    folderIdx,       \* position of the module's loop in folderpath_list
    pc,              \* "module", "for", "else", "crashed", "exit"
    imagepath_list,  \* main: the sorted listing
    pos,             \* main: position of the for loop in imagepath_list
    name,            \* main: << f, infile >>, or << >> while unbound
    fc_out,          \* main: the softmax vector of the entry, for the else block
    imgname, imglabel, imglabelnum, rate, error,  \* main: the ledgers
    csv,             \* csv[f]: the success report written for f
    error_csv        \* error_csv[f]: the failure report written for f

vars == << top, top0, sub, folderIdx, pc, imagepath_list, pos, name, fc_out,
           imgname, imglabel, imglabelnum, rate, error, csv, error_csv >>

ledgers == << imgname, imglabel, imglabelnum, rate, error >>

\* folderpath_list = os.listdir(args.rootfolder); folderpath_list.sort()
folderpath_list == Sorted(FolderNames)

\* The folder main is running on (imgpath without the root).
f == folderpath_list[folderIdx]

\* No report file.
NoFile == [ written |-> FALSE, rows |-> << >> ]

FileSlots == FolderNames \X (FileNames \cup PreFileLabels)

Init ==
    \E P \in SUBSET FileSlots :
    \E kind \in [ P -> { "img", "junk" } ] :
    \E pre \in [ FolderNames -> PreStates ] :
        /\ Cardinality(P) <= MaxFiles
        /\ top = [ g \in FolderNames |-> [ n \in Names |->
                     IF << g, n >> \in P THEN kind[<< g, n >>]
                     ELSE IF n \in pre[g].dirs THEN "dir" ELSE "absent" ] ]
        /\ top0 = top
        /\ \A g \in FolderNames : pre[g].old => top[g][OldDir] = "dir"
        /\ sub = [ g \in FolderNames |-> [ l \in LabelSet |->
                     IF pre[g].old /\ l = OldDir THEN { << OldName, "old" >> }
                     ELSE {} ] ]
        /\ folderIdx = 1
        /\ pc = "module"
        /\ imagepath_list = << >>
        /\ pos = 1
        /\ name = << >>
        /\ fc_out = << >>
        /\ imgname = << >> /\ imglabel = << >> /\ imglabelnum = << >>
        /\ rate = << >> /\ error = << >>
        /\ csv = [ g \in FolderNames |-> NoFile ]
        /\ error_csv = [ g \in FolderNames |-> NoFile ]

\* Mutant of Listdir: the listing descends into the category subfolders.
ListdirDeep(g) ==
    { n \in Names : top[g][n] # "absent" }
      \cup { e[1] : e \in UNION { sub[g][l] : l \in LabelSet } }

\* os.listdir(imgpath)
Listdir(g) == { n \in Names : top[g][n] # "absent" }

\* Mutant of StartFolder: the success ledgers are not emptied at the start
\* of main (they outlive the call, as module-level lists would).
StartFolderKeepsLedgers ==
    /\ pc = "module"
    /\ folderIdx <= Len(folderpath_list)
    /\ pc' = "for"
    /\ imagepath_list' = Sorted({ n \in Names : top[f][n] # "absent" })
    /\ pos' = 1
    /\ name' = << >>
    /\ fc_out' = << >>
    /\ error' = << >>
    /\ UNCHANGED << top, top0, sub, folderIdx, csv, error_csv,
                    imgname, imglabel, imglabelnum, rate >>

\* The module's loop calls main(imgpath) on the next folder: the ledgers
\* start empty, name is unbound, the listing is taken and sorted.
StartFolder ==
    /\ pc = "module"
    /\ folderIdx <= Len(folderpath_list)
    /\ pc' = "for"
    /\ imagepath_list' = Sorted(Listdir(f))
    /\ pos' = 1
    /\ name' = << >>
    /\ fc_out' = << >>
    /\ imgname' = << >> /\ imglabel' = << >> /\ imglabelnum' = << >>
    /\ rate' = << >> /\ error' = << >>
    /\ UNCHANGED << top, top0, sub, folderIdx, csv, error_csv >>

\* The entry of the current iteration.
infile == imagepath_list[pos]

InLoop == pc = "for" /\ pos <= Len(imagepath_list)

\* The except block: print("error: " + name); error.append(name).  Reading
\* name while it is unbound raises UnboundLocalError out of main.
Except(nm) ==
    IF nm = << >>
    THEN /\ pc' = "crashed"
         /\ UNCHANGED << pos, error >>
    ELSE /\ pc' = "for"
         /\ pos' = pos + 1
         /\ error' = Append(error, nm)

\* One iteration whose try block raises in os.mkdir: name keeps the value
\* an earlier iteration gave it.
TryMkdirRaises ==
    /\ InLoop
    /\ LET m == MkdirLoop(top[f], infile, 0)
       IN  /\ m.raised
           /\ top' = [ top EXCEPT ![f] = m.top ]
    /\ Except(name)
    /\ UNCHANGED << top0, sub, folderIdx, imagepath_list, name, fc_out,
                    imgname, imglabel, imglabelnum, rate, csv, error_csv >>

\* One iteration whose try block raises after name was bound (open, convert,
\* preprocess, model).
TryOpenRaises ==
    /\ InLoop
    /\ LET m == MkdirLoop(top[f], infile, 0)
       IN  /\ ~m.raised
           /\ ~ImgTypeLoop(infile, 1)
           /\ OpenRaises(m.top[infile])
           /\ top' = [ top EXCEPT ![f] = m.top ]
    /\ name' = << f, infile >>
    /\ Except(name')
    /\ UNCHANGED << top0, sub, folderIdx, imagepath_list, fc_out,
                    imgname, imglabel, imglabelnum, rate, csv, error_csv >>

\* One iteration whose try block completes: fc_out holds the softmax vector
\* and control goes to the else block.
TryCompletes ==
    /\ InLoop
    /\ LET m == MkdirLoop(top[f], infile, 0)
       IN  /\ ~m.raised
           /\ ~ImgTypeLoop(infile, 1)
           /\ ~OpenRaises(m.top[infile])
           /\ top' = [ top EXCEPT ![f] = m.top ]
    /\ name' = << f, infile >>
    /\ \E out \in ProbVectors : fc_out' = out
    /\ pc' = "else"
    /\ UNCHANGED << top0, sub, folderIdx, imagepath_list, pos, ledgers,
                    csv, error_csv >>

\* The else block up to and including a shutil.move that returns.
ElseMoves ==
    /\ pc = "else"
    /\ LET d == Decide(fc_out)
       IN  /\ ~MoveRaises(top[f], d.label)
           /\ rate' = Append(rate, d.best_out)
           /\ imgname' = Append(imgname, infile)
           /\ imglabel' = Append(imglabel, d.label)
           /\ imglabelnum' = Append(imglabelnum, d.labelnum)
           /\ top' = [ top EXCEPT ![f][infile] = "absent" ]
           /\ sub' = [ sub EXCEPT ![f][d.label] = MovedInto(@, infile) ]
    /\ pc' = "for"
    /\ pos' = pos + 1
    /\ UNCHANGED << top0, folderIdx, imagepath_list, name, fc_out, error,
                    csv, error_csv >>

\* The else block with a shutil.move that raises: nothing catches it, the
\* exception leaves main and the module's loop.
ElseMoveRaises ==
    /\ pc = "else"
    /\ LET d == Decide(fc_out)
       IN  /\ MoveRaises(top[f], d.label)
           /\ rate' = Append(rate, d.best_out)
           /\ imgname' = Append(imgname, infile)
           /\ imglabel' = Append(imglabel, d.label)
           /\ imglabelnum' = Append(imglabelnum, d.labelnum)
    /\ pc' = "crashed"
    /\ UNCHANGED << top, top0, sub, folderIdx, imagepath_list, pos, name, fc_out,
                    error, csv, error_csv >>

\* The rows of the success table: the four ledger columns side by side.
SuccessRows ==
    [ r \in 1 .. Len(imgname) |->
        [ imgname |-> imgname[r], predict_label |-> imglabel[r],
          predict_label_num |-> imglabelnum[r], probability |-> rate[r] ] ]

\* After the loop: the success table is written, the failure table when
\* error is not empty (error is then emptied), and main returns to the
\* module's loop.  The other locals are shown with their last values, which
\* nothing reads after the return.
FinishFolder ==
    /\ pc = "for"
    /\ pos > Len(imagepath_list)
    /\ csv' = [ csv EXCEPT ![f] = [ written |-> TRUE, rows |-> SuccessRows ] ]
    /\ error_csv' = IF error # << >>
                    THEN [ error_csv EXCEPT ![f] =
                             [ written |-> TRUE, rows |-> error ] ]
                    ELSE error_csv
    /\ error' = << >>
    /\ pc' = "module"
    /\ folderIdx' = folderIdx + 1
    /\ UNCHANGED << top, top0, sub, imagepath_list, pos, name, fc_out,
                    imgname, imglabel, imglabelnum, rate >>

\* The module's loop has run out of folders.
Exit ==
    /\ pc = "module"
    /\ folderIdx > Len(folderpath_list)
    /\ pc' = "exit"
    /\ UNCHANGED << top, top0, sub, folderIdx, imagepath_list, pos, name, fc_out,
                    ledgers, csv, error_csv >>

Next ==
    \/ StartFolder
    \/ TryMkdirRaises
    \/ TryOpenRaises
    \/ TryCompletes
    \/ ElseMoves
    \/ ElseMoveRaises
    \/ FinishFolder
    \/ Exit

Spec == Init /\ [][Next]_vars

\* ------------------------------------------------- the decision rule alone
\* Every vector of K entries in 0 .. Grid, as fc_out[0].
GridVectors == [ 1 .. K -> 0 .. Grid ]

\* main at the else block of the only entry of the first folder, a decodable
\* image, with any vector of the grid in fc_out.
DecisionInit ==
    \E out \in GridVectors :
        /\ top0 = [ g \in FolderNames |-> [ n \in Names |->
                      IF g = folderpath_list[1] /\ n = "a.png"
                      THEN "img" ELSE "absent" ] ]
        /\ top = [ top0 EXCEPT ![folderpath_list[1]] =
                     MkdirLoop(@, "a.png", 0).top ]
        /\ sub = [ g \in FolderNames |-> [ l \in LabelSet |-> {} ] ]
        /\ folderIdx = 1
        /\ pc = "else"
        /\ imagepath_list = << "a.png" >>
        /\ pos = 1
        /\ name = << folderpath_list[1], "a.png" >>
        /\ fc_out = out
        /\ imgname = << >> /\ imglabel = << >> /\ imglabelnum = << >>
        /\ rate = << >> /\ error = << >>
        /\ csv = [ g \in FolderNames |-> NoFile ]
        /\ error_csv = [ g \in FolderNames |-> NoFile ]

DecisionNext == ElseMoves \/ FinishFolder

DecisionSpec == DecisionInit /\ [][DecisionNext]_vars

\* ------------------------------------------------------------------ claims
\* The digit strings of the label numbers.
Digits == << "0", "1", "2", "3", "4", "5", "6" >>

\* C8: for every vector, the recorded category is the index of the maximum
\* entry, the lowest index among tied maxima; the recorded confidence is the
\* vector's value there; the recorded label and label number are labels[index]
\* and str(index).
C8_DecisionRule ==
    (pc = "for" /\ Len(imgname) = 1) =>
        \E i \in LabelIdx :
            /\ \A j \in LabelIdx : fc_out[j + 1] <= fc_out[i + 1]
            /\ \A j \in LabelIdx : j < i => fc_out[j + 1] < fc_out[i + 1]
            /\ rate[1] = fc_out[i + 1]
            /\ imglabel[1] = labels[i + 1]
            /\ imglabelnum[1] = Digits[i + 1]

\* C8 witness: a vector with its maximum at indexes 1 and 3 was decided as
\* index 1.
C8_Witness ==
    /\ pc = "for"
    /\ fc_out = << 1, 2, 0, 2, 0, 0, 1 >>
    /\ imgname = << "a.png" >>
    /\ imglabel = << "1.Feature-landscape" >>
    /\ imglabelnum = << "1" >>
    /\ rate = << 2 >>

\* An entry name matches the allow-list when one of img_type occurs in it.
Matches(n) == \E j \in 1 .. Len(img_type) : Find(n, img_type[j]) # -1

\* A valid image entry: a recognized extension and not a category label.
Eligible(n) == Matches(n) /\ n \notin LabelSet

\* The eligible entries folder g held before the run.
EligibleEntries(g) == { n \in Names : top0[g][n] # "absent" /\ Eligible(n) }

\* The file names in the success report and in the failure report of g.
SuccessNames(g) ==
    { csv[g].rows[r].imgname : r \in 1 .. Len(csv[g].rows) }

FailureNames(g) ==
    { error_csv[g].rows[r][2] : r \in 1 .. Len(error_csv[g].rows) }

\* The try block of the current iteration raises in os.mkdir.
MkdirRaisesNow == InLoop /\ MkdirLoop(top[f], infile, 0).raised

\* C1: after main has run over a folder, every valid image entry of it is
\* either in the success report and moved to folder/<label>/<filename>, or in
\* the failure report and unchanged at its original path; never both, neither,
\* or moved without a success record.
C1_DispositionComplete ==
    \A g \in FolderNames : csv[g].written =>
        \A n \in EligibleEntries(g) :
            \/ /\ n \in SuccessNames(g)
               /\ n \notin FailureNames(g)
               /\ top[g][n] = "absent"
               /\ \E r \in 1 .. Len(csv[g].rows) :
                    /\ csv[g].rows[r].imgname = n
                    /\ << n, "new" >> \in sub[g][csv[g].rows[r].predict_label]
            \/ /\ n \in FailureNames(g)
               /\ n \notin SuccessNames(g)
               /\ top[g][n] = top0[g][n]
               /\ \A l \in LabelSet : << n, "new" >> \notin sub[g][l]

\* C2: an exception raised by a per-entry stage (decode, inference, decision,
\* move) is caught, gives one failure record for the entry, and the loop goes
\* on with the next entry.
C2_PartialFailureIsolation ==
    [][ ( \/ /\ InLoop
             /\ ~MkdirLoop(top[f], infile, 0).raised
             /\ OpenRaises(top[f][infile])
          \/ /\ pc = "else"
             /\ MoveRaises(top[f], Decide(fc_out).label) )
        => ( /\ pc' = "for"
             /\ pos' = pos + 1
             /\ error' = Append(error, << f, infile >>) ) ]_vars

\* C3: an entry whose name matches no member of the allow-list is silently
\* skipped: not classified, not moved, in neither ledger.
C3_ExtensionEligibility ==
    [][ (InLoop /\ ~Matches(infile))
        => ( /\ pc' = "for"
             /\ pos' = pos + 1
             /\ ledgers' = ledgers
             /\ fc_out' = fc_out
             /\ top'[f][infile] = top[f][infile]
             /\ sub' = sub ) ]_vars

\* C4: an entry named like a category label is skipped and is in neither
\* ledger, so a folder holding only the category subfolders gets no failure
\* report.
C4_CategoryEntriesSkipped ==
    [][ /\ (InLoop /\ infile \in LabelSet)
           => ( /\ pc' = "for"
                /\ pos' = pos + 1
                /\ ledgers' = ledgers )
        /\ ( /\ pc = "for"
             /\ pos > Len(imagepath_list)
             /\ \A n \in Names : top0[f][n] # "absent"
                                   => (n \in LabelSet /\ top0[f][n] = "dir") )
           => ~error_csv'[f].written ]_vars

\* C5: the two reports of a folder are disjoint, their union is the set of
\* eligible entries the folder held before the run, and their row counts add
\* up to the number of those entries.
C5_ReportTotality ==
    \A g \in FolderNames : csv[g].written =>
        /\ SuccessNames(g) \cap FailureNames(g) = {}
        /\ SuccessNames(g) \cup FailureNames(g) = EligibleEntries(g)
        /\ Len(csv[g].rows) + Len(error_csv[g].rows)
             = Cardinality(EligibleEntries(g))

\* C6: a failure to create a category subfolder ends the run of the current
\* folder (it is no per-entry failure) and the program goes on with the next
\* folder; nothing else ends a folder's run before its entries are consumed.
C6_MkdirFailureFatalForFolder ==
    [][ /\ MkdirRaisesNow
           => (pc' = "module" /\ folderIdx' = folderIdx + 1)
        /\ ( /\ pc \in { "for", "else" }
             /\ pos <= Len(imagepath_list)
             /\ pc' \notin { "for", "else" } )
           => MkdirRaisesNow ]_vars

\* C7: whatever happens in one folder, the program having stopped, every
\* other folder has been processed and has its success report.
C7_CrossFolderIsolation ==
    pc \in { "exit", "crashed" } =>
        \A k \in 1 .. Len(folderpath_list) :
            k # folderIdx => csv[folderpath_list[k]].written

\* C9: every folder run that was started reaches its end and has its success
\* report written: once the program has stopped, no started folder is without
\* its report.
C9_Finalization ==
    pc \in { "exit", "crashed" } =>
        \A k \in 1 .. Len(folderpath_list) :
            k <= folderIdx => csv[folderpath_list[k]].written

\* C10: when a folder's loop completes, the success table is written (also
\* with no rows), the failure table iff the failure ledger is not empty; with
\* no eligible entry in the folder there is no failure report.
C10_ReporterFlush ==
    [][ (pc = "for" /\ pos > Len(imagepath_list))
        => ( /\ csv'[f].written
             /\ csv'[f].rows = SuccessRows
             /\ error_csv'[f].written <=> (error # << >>)
             /\ EligibleEntries(f) = {} => ~error_csv'[f].written ) ]_vars

\* The number of records of failure ledger e equal to x.
CountIn(e, x) == Cardinality({ r \in 1 .. Len(e) : e[r] = x })

\* The iteration about to run raises in open, convert, preprocess or model:
\* the mkdir loop returns and the entry is no decodable image.
FailsToDecode ==
    /\ InLoop
    /\ LET m == MkdirLoop(top[f], infile, 0)
       IN  ~m.raised /\ OpenRaises(m.top[infile])

\* C11: when decoding, preprocessing or inference fails for an entry, the
\* iteration leaves the entry in the failure ledger exactly once, with no
\* success record, its file as it was and every category subfolder's contents
\* unchanged; and for the rest of the run on the folder the failure ledger
\* keeps holding that entry exactly once and its file stays as it was.
C11_FailureLeavesFileUntouched ==
    [][ /\ FailsToDecode =>
              /\ CountIn(error', << f, infile >>) = 1
              /\ \A r \in 1 .. Len(imgname') : imgname'[r] # infile
              /\ top'[f][infile] = top[f][infile]
              /\ sub' = sub
        /\ \A n \in Names :
              ( /\ pc \in { "for", "else" }
                /\ pc' # "module"
                /\ OpenRaises(top0[f][n])
                /\ CountIn(error, << f, n >>) = 1 )
              => /\ CountIn(error', << f, n >>) = 1
                 /\ top'[f][n] = top0[f][n]
      ]_vars

\* Some or all category subfolders of the current folder exist as directories
\* and no category label is the name of a file.
SomeCategoryDirsExist ==
    /\ \E l \in LabelSet : top[f][l] = "dir"
    /\ \A l \in LabelSet : top[f][l] \in { "dir", "absent" }

\* C12: ensuring the category subfolders where some or all of them exist
\* raises no error, keeps the existing directories and their contents, makes
\* nothing but the missing category subfolders, and doing it again changes
\* nothing.
C12_IdempotentCategoryFolders ==
    [][ (InLoop /\ SomeCategoryDirsExist)
        => ( /\ ~MkdirLoop(top[f], infile, 0).raised
             /\ pc' # "crashed"
             /\ \A l \in LabelSet : top'[f][l] = "dir"
             /\ \A n \in Names \ LabelSet : top'[f][n] = top[f][n]
             /\ sub' = sub
             /\ MkdirLoop(top'[f], infile, 0)
                  = [ top |-> top'[f], raised |-> FALSE ] ) ]_vars

\* C12 witness: a folder that held some category subfolders, one with a file
\* of an earlier run, after an iteration: all of them exist and the file is
\* still there.
C12_Witness ==
    /\ pc = "for"
    /\ pos > 1
    /\ top0[f][OldDir] = "dir"
    /\ top0[f][Label(0)] = "absent"
    /\ \A l \in LabelSet : top[f][l] = "dir"
    /\ << OldName, "old" >> \in sub[f][OldDir]

\* C13: a category subfolder that exists keeps existing under its name in
\* every later state; no step deletes, renames or moves it, not even the
\* iteration whose entry is that subfolder.
C13_CategoryFoldersPermanent ==
    [][ \A g \in FolderNames : \A l \in LabelSet :
            top[g][l] = "dir" => top'[g][l] = "dir" ]_vars

\* C13 witness: the iteration on an entry that is a category subfolder has
\* ended and the subfolder is still there.
C13_Witness ==
    /\ pc = "for"
    /\ pos > 1
    /\ imagepath_list[pos - 1] \in LabelSet
    /\ top0[f][imagepath_list[pos - 1]] = "dir"
    /\ top[f][imagepath_list[pos - 1]] = "dir"
    /\ error[Len(error)] = << f, imagepath_list[pos - 1] >>

\* Lexicographic order on the names of entries and folders, tabulated.
Before ==
    [ a \in Names \cup FolderNames |->
        [ b \in Names \cup FolderNames |-> StrLess(a, b) ] ]

\* The names of sequence s are in strictly ascending lexicographic order
\* (each before its successor).
Ascending(s) ==
    \A i \in 1 .. Len(s) - 1 : Before[s[i]][s[i + 1]]

\* No name of sequence s comes before its predecessor.
NeverDescending(s) ==
    \A i \in 1 .. Len(s) - 1 : ~Before[s[i + 1]][s[i]]

\* The file names of a failure ledger or report.
BaseNames(e) == [ r \in 1 .. Len(e) |-> e[r][2] ]

\* Nothing of folder g was touched and no report of it was written.
Untouched(g) ==
    /\ top[g] = top0[g]
    /\ \A l \in LabelSet : \A e \in sub[g][l] : e[2] = "old"
    /\ ~csv[g].written
    /\ ~error_csv[g].written

\* C14: the entries of a folder are processed in lexicographic order and the
\* rows of both reports are in that order; the folders are processed in sorted
\* order, each with its report written before the next one is touched.
C14_SequentialOrder ==
    /\ Ascending(folderpath_list)
    /\ Ascending(imagepath_list)
    /\ Ascending(imgname)
    /\ \A r \in 1 .. Len(imgname) :
         \E i \in 1 .. Len(imagepath_list) :
            i <= pos /\ imagepath_list[i] = imgname[r]
    /\ NeverDescending(BaseNames(error))
    /\ \A r \in 1 .. Len(error) :
         \E i \in 1 .. Len(imagepath_list) :
            i < pos /\ imagepath_list[i] = error[r][2]
    /\ \A g \in FolderNames :
         /\ Ascending([ r \in 1 .. Len(csv[g].rows) |-> csv[g].rows[r].imgname ])
         /\ NeverDescending(BaseNames(error_csv[g].rows))
    /\ \A k \in 1 .. Len(folderpath_list) :
         /\ k < folderIdx => csv[folderpath_list[k]].written
         /\ (k > folderIdx \/ (k = folderIdx /\ pc = "module"))
              => Untouched(folderpath_list[k])

\* C14 witness: the first folder's report holds its two images in order and
\* the second folder is being processed.
C14_Witness ==
    /\ folderIdx = 2
    /\ pc = "for"
    /\ pos > 1
    /\ csv[folderpath_list[1]].written
    /\ Len(csv[folderpath_list[1]].rows) = 2
    /\ csv[folderpath_list[1]].rows[1].imgname = "0.A.jpg"
    /\ csv[folderpath_list[1]].rows[2].imgname = "a.png"

\* C15: a record appended to the failure ledger names the entry that was
\* being processed when the try block raised, whichever statement raised, and
\* the handler itself does not raise on an unbound name.
C15_FailureRecordNamesEntry ==
    [][ InLoop
        => ( /\ pc' # "crashed"
             /\ error' # error => error' = Append(error, << f, infile >>) ) ]_vars

\* C16: when the move of an entry is invoked, folder/<winning label> is a
\* directory, and not the source file, whatever the entry's name.
C16_DestinationExists ==
    pc = "else" =>
        /\ top[f][Decide(fc_out).label] = "dir"
        /\ Decide(fc_out).label # infile

\* The entries folder g held before the run.
Listdir0(g) == { n \in Names : top0[g][n] # "absent" }

\* C17: the ledgers are empty when a folder's run starts, the reports of a
\* folder hold only entries of that folder, and a folder all of whose entries
\* succeeded has no failure report, whatever happened in an earlier folder.
C17_LedgersPerFolder ==
    /\ (pc = "for" /\ pos = 1) =>
         /\ imgname = << >> /\ imglabel = << >> /\ imglabelnum = << >>
         /\ rate = << >> /\ error = << >>
    /\ \A g \in FolderNames :
         /\ \A r \in 1 .. Len(csv[g].rows) :
              csv[g].rows[r].imgname \in Listdir0(g)
         /\ \A r \in 1 .. Len(error_csv[g].rows) :
              /\ error_csv[g].rows[r][1] = g
              /\ error_csv[g].rows[r][2] \in Listdir0(g)
         /\ Len(csv[g].rows) + Len(error_csv[g].rows) <= Cardinality(Listdir0(g))
         /\ (csv[g].written /\ Len(csv[g].rows) = Cardinality(Listdir0(g)))
              => ~error_csv[g].written

\* C17 witness: the first folder has a failure report; the second folder, run
\* after it, has a success report with a row and no failure report.
C17_Witness ==
    /\ error_csv[folderpath_list[1]].written
    /\ csv[folderpath_list[2]].written
    /\ Len(csv[folderpath_list[2]].rows) > 0
    /\ ~error_csv[folderpath_list[2]].written

\* The files named n in category subfolder l of the current folder.
FilesNamed(l, n) == { e \in sub[f][l] : e[1] = n }

\* C18: when the winning category's subfolder already holds a file with the
\* entry's name, the move does not raise; and every entry recorded as a
\* success, that one included, is no failure and has exactly one file of its
\* name in its category subfolder, the one just moved.
C18_OverwriteOnCollision ==
    /\ (pc = "else" /\ FilesNamed(Decide(fc_out).label, infile) # {})
         => ~MoveRaises(top[f], Decide(fc_out).label)
    /\ pc = "for" =>
         \A r \in 1 .. Len(imgname) :
            /\ FilesNamed(imglabel[r], imgname[r]) = { << imgname[r], "new" >> }
            /\ \A q \in 1 .. Len(error) : error[q] # << f, imgname[r] >>

\* C18 witness: the folder held some category subfolders, the one of OldDir
\* with a file OldName of an earlier run; the entry OldName was classified
\* into OldDir and moved over it.
C18_Witness ==
    /\ pc = "for"
    /\ pos > 1
    /\ top0[f][OldDir] = "dir"
    /\ top0[f][Label(0)] = "absent"
    /\ imagepath_list[pos - 1] = OldName
    /\ Len(imgname) > 0
    /\ imgname[Len(imgname)] = OldName
    /\ imglabel[Len(imglabel)] = OldDir
    /\ sub[f][OldDir] = { << OldName, "new" >> }

\* The files of an earlier run nested in category subfolder l of folder g.
NestedOld(g, l) == { e \in sub[g][l] : e[2] = "old" }

\* C19: in every step of a run on folder f, (1) nothing under another folder
\* changes; (2) the listing taken at the start of the run holds direct
\* entries of f only; (3) every file nested in a category subfolder stays
\* where it is, unless a direct entry of the same name is moved over it, and
\* no nested file appears anywhere else; (4) every record of the ledgers
\* names a direct entry of f.
C19_FrameOfFolderRun ==
    [][ /\ \A g \in FolderNames :
              (folderIdx > Len(folderpath_list) \/ g # f)
                 => top'[g] = top[g] /\ sub'[g] = sub[g]
        /\ (pc = "module" /\ pc' = "for") =>
              \A i \in 1 .. Len(imagepath_list') :
                 top0[f][imagepath_list'[i]] # "absent"
        /\ \A g \in FolderNames : \A l \in LabelSet :
              /\ \A e \in NestedOld(g, l) :
                    \/ e \in sub'[g][l]
                    \/ /\ g = f /\ pc = "else" /\ e[1] = infile
                       /\ << infile, "new" >> \in sub'[g][l]
              /\ { e \in sub'[g][l] : e[2] = "old" } \subseteq NestedOld(g, l)
        /\ pc \in { "for", "else" } =>
              /\ \A r \in 1 .. Len(imgname') :
                    top0[f][imgname'[r]] # "absent"
              /\ \A q \in 1 .. Len(error') :
                    error'[q][1] = f /\ top0[f][error'[q][2]] # "absent"
      ]_vars

\* C19 witness: the run on the first folder is over; the folder had no
\* direct entry OldName, one of its entries was classified and moved into
\* OldDir, where the nested file OldName of an earlier run still is; the
\* second folder, which is not empty, is as it was.
C19_Witness ==
    /\ pc = "module"
    /\ folderIdx = 2
    /\ top0[folderpath_list[1]][OldName] = "absent"
    /\ csv[folderpath_list[1]].written
    /\ \E n \in FileNames :
          sub[folderpath_list[1]][OldDir] = { << OldName, "old" >>, << n, "new" >> }
    /\ \E n \in FileNames : top0[folderpath_list[2]][n] # "absent"
    /\ top[folderpath_list[2]] = top0[folderpath_list[2]]

====
